---------------------------- MODULE Spec2Model ----------------------------
(***************************************************************************)
(* Adversarial Variational Optimization notebook                           *)
(* (src/day4-Fri/Pythia-Tune-AVO.ipynb).                                   *)
(*                                                                         *)
(* The model covers get_data and the PythiaMill request/retrieve queue it  *)
(* drives, the variational distribution (mean, raw sigma, softplus), the   *)
(* Adam step of distribution_opt, train_discriminator, train_generator and *)
(* the pretraining and optimization cells.                                 *)
(*                                                                         *)
(* Reals are fixed-point integers: the value x is stored as x * FP.        *)
(***************************************************************************)
EXTENDS Integers, Sequences, FiniteSets, TLC

VARIABLES
    \* ---- mill (pm.ParametrizedPythiaMill) ----
    n_requests,               \* mill.n_requests
    command_queue,            \* requests submitted and not yet completed
    queue,                    \* completed (args, batch) units not yet retrieved
    \* ---- get_data frame ----
    gd_pc,                    \* position inside get_data
    detector_configurations,  \* argument of the running call
    n_sent,                   \* iterations done of the request loop
    data,                     \* list built by the retrieve comprehension
    result,                   \* (params, samples) of the return statement
    failure,                  \* exception pending while the finally block runs
    \* ---- history of the running call (not program state) ----
    call,                     \* number of get_data calls made so far
    entry_requests,           \* mill.n_requests when the call was entered
    cleanup_retrieves,        \* retrieves issued by the finally block
    aborted,                  \* an external failure or interrupt hit the call
    prev,                     \* how the previous call ended
    \* ---- distribution, optimizer, discriminator ----
    detector_params_mean,
    detector_params_sigma_raw,
    adam,                     \* slots of tf.train.AdamOptimizer
    discriminator,            \* identity of the discriminator's weights
    \* ---- notebook cells ----
    cell,                     \* cell being executed
    step,                     \* statement inside the cell
    i,                        \* loop variable of the optimization cell
    sample_of_detector_params,
    generator_mean_history,
    generator_sigma_history,
    \* ---- history of the run (not program state) ----
    trace                     \* counters of completed steps

millVars == <<n_requests, command_queue, queue>>
gdVars   == <<gd_pc, detector_configurations, n_sent, data, result, failure>>
gdHist   == <<call, entry_requests, cleanup_retrieves, aborted, prev>>
optVars  == <<detector_params_mean, detector_params_sigma_raw, adam>>
cellVars == <<cell, step, i, sample_of_detector_params,
              generator_mean_history, generator_sigma_history, trace>>
vars == <<millVars, gdVars, gdHist, optVars, discriminator, cellVars>>

---------------------------------------------------------------------------
(* Bounds of the model *)

\* longest configuration list an arbitrary caller hands to get_data
MaxK == 2

\* n_iterations of the optimization cell (256 in the notebook)
n_iterations == 2

\* configurations per train_discriminator call of the pretraining cell
\* (n_samples // 8 = 8192 in the notebook)
PretrainConfigs == 1

\* configurations per train_discriminator call of the optimization cell
\* (n_samples // 8 = 512 in the notebook)
DiscriminatorConfigs == 1

\* configurations per train_generator call (2 ** 8 in the notebook)
GeneratorConfigs == 1

\* raw sigma values handed to the distribution: halves from -MaxSigmaRaw / 2
\* to MaxSigmaRaw / 2
MaxSigmaRaw == 3

---------------------------------------------------------------------------
(* Numbers *)

\* float32 values are kept to three decimal places
FP == 1000

TRUE_OFFSET == 1

\* initial_value of detector_params_mean
InitialMean == 0

\* initial_value of detector_params_sigma_raw
InitialSigmaRaw == 2 * FP

batch_size == 8

n_workers == 4

Min(a, b) == IF a <= b THEN a ELSE b

---------------------------------------------------------------------------
(* Fixed-point arithmetic, rounding to nearest *)

RDiv(a, b) == (2 * a + b) \div (2 * b)

Mul(a, b) == RDiv(a * b, FP)

Div(a, b) == RDiv(a * FP, b)

\* a * b / c without forming a * b (a, b >= 0, c > 0)
MulDiv(a, b, c) == (a \div c) * b + RDiv((a % c) * b, c)

RECURSIVE SqrtSearch(_, _, _)
SqrtSearch(n, lo, hi) ==
    IF hi - lo <= 1 THEN lo
    ELSE LET mid == (lo + hi) \div 2
         IN  IF mid * mid <= n THEN SqrtSearch(n, mid, hi)
                               ELSE SqrtSearch(n, lo, mid)

\* integer square root of 0 <= n < 2^31
Sqrt(n) == SqrtSearch(n, 0, 46341)

\* exp(-a) for 0 <= a <= 1, by its power series
RECURSIVE ExpSeries(_, _)
ExpSeries(a, n) ==
    IF n > 8 THEN FP ELSE FP - RDiv(a * ExpSeries(a, n + 1), n * FP)

\* exp(-a) for a >= 0
RECURSIVE ExpNeg(_)
ExpNeg(a) ==
    IF a <= 0 THEN FP
    ELSE IF a > 16 * FP THEN 0
    ELSE IF a <= FP THEN ExpSeries(a, 1)
    ELSE Mul(ExpNeg(a - FP), ExpSeries(FP, 1))

\* log(1 + u) for u >= 0, as 2 atanh(w) with w = u / (2 + u), by the series
\* of atanh
Log1p(u) ==
    LET Atanh[w \in Int] ==
            LET w2 == Mul(w, w)
            IN  Mul(w, FP + RDiv(w2, 3) + RDiv(Mul(w2, w2), 5)
                          + RDiv(Mul(Mul(w2, w2), w2), 7))
    IN  2 * Atanh[Div(u, 2 * FP + u)]

---------------------------------------------------------------------------
(* The variational distribution *)

\* (mutant) the raw variable is used as the standard deviation
SoftplusIdentity(x) == x

\* tf.nn.softplus: log(1 + exp(x)) = max(x, 0) + log(1 + exp(-|x|))
Softplus(x) ==
    (IF x > 0 THEN x ELSE 0) + Log1p(ExpNeg(IF x >= 0 THEN x ELSE -x))

\* detector_params_sigma = tf.nn.softplus(detector_params_sigma_raw)
detector_params_sigma == Softplus(detector_params_sigma_raw)

\* d softplus(x) / dx = 1 - exp(-softplus(x))
SoftplusPrime(x) == FP - ExpNeg(Softplus(x))

\* values tf.random_normal draws before scaling by stddev and shifting by mean
StandardNormalDraws == {-FP, 0, 2 * FP}

\* params_sample: mean + stddev * z, one row per draw
ParamsSample(zs) ==
    [k \in DOMAIN zs |->
        detector_params_mean + Mul(detector_params_sigma, zs[k])]

\* values the discriminator's sigmoid output takes on an image
Probas == {0, FP}

RECURSIVE SumSeq(_)
SumSeq(s) == IF s = <<>> THEN 0 ELSE Head(s) + SumSeq(Tail(s))

Mean(s) == RDiv(SumSeq(s), Len(s))

\* (mutant) the reward is dropped from the loss: reduce_mean(neg_log_prob)
GradientWithoutReward(params, proba) ==
    LET At[sigma \in Int, prime \in Int] ==
            LET u(r) == Div(params[r] - detector_params_mean, sigma)
            IN  [mean  |-> Mean([r \in DOMAIN params |-> - Div(u(r), sigma)]),
                 sigma |-> Mul(Mean([r \in DOMAIN params |->
                                        Div(FP - Mul(u(r), u(r)), sigma)]),
                               prime)]
    IN  At[detector_params_sigma, SoftplusPrime(detector_params_sigma_raw)]

\* gradient of detector_params_loss = reduce_mean(neg_log_prob * proba),
\* neg_log_prob = log(sigma) + 0.5 * (params - mean)^2 / sigma^2, with respect
\* to (detector_params_mean, detector_params_sigma_raw); At is the gradient
\* at standard deviation sigma, prime being d sigma / d sigma_raw
Gradient(params, proba) ==
    LET At[sigma \in Int, prime \in Int] ==
            LET u(r) == Div(params[r] - detector_params_mean, sigma)
            IN  [mean  |-> Mean([r \in DOMAIN params |->
                                   Mul(proba[r], - Div(u(r), sigma))]),
                 sigma |-> Mul(Mean([r \in DOMAIN params |->
                                        Mul(proba[r],
                                            Div(FP - Mul(u(r), u(r)), sigma))]),
                               prime)]
    IN  At[detector_params_sigma, SoftplusPrime(detector_params_sigma_raw)]

---------------------------------------------------------------------------
(* tf.train.AdamOptimizer(learning_rate=0.02), beta1 = 0.9, beta2 = 0.999 *)

learning_rate == FP \div 50

\* beta1^t and beta2^t, to six decimal places
RECURSIVE Beta1Power(_)
Beta1Power(t) == IF t = 0 THEN FP * FP ELSE RDiv(Beta1Power(t - 1) * 9, 10)

RECURSIVE Beta2Power(_)
Beta2Power(t) == IF t = 0 THEN FP * FP ELSE RDiv(Beta2Power(t - 1) * 999, 1000)

AdamInit == [t |-> 0, m_mean |-> 0, v_mean |-> 0, m_sigma |-> 0, v_sigma |-> 0]

\* m <- beta1 m + (1 - beta1) g
AdamM(m, g) == m + RDiv(g - m, 10)

\* v <- beta2 v + (1 - beta2) g^2, v kept in units of 1 / (1000 FP^2)
AdamV(v, g) == v - RDiv(v, 1000) + g * g

\* lr sqrt(1 - beta2^t) / (1 - beta1^t) * m / (sqrt(v) + epsilon); epsilon
\* is one unit of the resolution
AdamDelta(t, m, v) ==
    LET mhat == RDiv(m * FP, RDiv(FP * FP - Beta1Power(t), FP))
        vhat == MulDiv(v, FP, FP * FP - Beta2Power(t))
    IN  RDiv(learning_rate * mhat, Sqrt(vhat) + 1)

---------------------------------------------------------------------------
(* PythiaMill: request enqueues a configuration, a pool of n_workers       *)
(* processes turns configurations into (args, batch) units, retrieve       *)
(* blocks for one completed unit.                                          *)

\* the unit a worker produces for one request: batch_size images, each
\* remembering the request it was generated for
MillUnit(req) ==
    [args  |-> req.args,
     batch |-> [r \in 1..batch_size |->
                  [call |-> req.call, idx |-> req.idx, row |-> r,
                   theta |-> req.args]]]

RemoveAt(s, j) == [k \in 1..(Len(s) - 1) |-> IF k < j THEN s[k] ELSE s[k + 1]]

\* a worker finishes one of the requests being processed: the first
\* n_workers of the submitted ones, in any order
WorkerComplete ==
    /\ \E j \in 1..Min(n_workers, Len(command_queue)) :
          /\ queue' = Append(queue, MillUnit(command_queue[j]))
          /\ command_queue' = RemoveAt(command_queue, j)
    /\ UNCHANGED <<n_requests, gdVars, gdHist, optVars, discriminator, cellVars>>

---------------------------------------------------------------------------
(* get_data *)

NoResult == [params |-> <<>>, samples |-> <<>>]

\* counters of the steps completed so far; nothing has run
TraceInit ==
    [pretrains |-> 0, fits |-> 0, updates |-> 0, logs |-> 0,
     batches |-> 0, fit_batch |-> 0, update_batch |-> 0,
     zero_reward |-> FALSE]

\* entry of get_data(mill, detector_configurations = configs)
GetDataEnter(configs) ==
    /\ detector_configurations' = configs
    /\ n_sent' = 0
    /\ data' = <<>>
    /\ result' = NoResult
    /\ failure' = "none"
    /\ gd_pc' = IF Len(configs) = 0 THEN "assemble" ELSE "request"
    /\ call' = call + 1
    /\ entry_requests' = n_requests
    /\ cleanup_retrieves' = 0
    /\ aborted' = FALSE
    /\ prev' = [exit |-> gd_pc, aborted |-> aborted]

\* for args in detector_configurations: mill.request(*args)
GetDataRequest ==
    /\ gd_pc = "request"
    /\ n_sent < Len(detector_configurations)
    /\ command_queue' = Append(command_queue,
          [call |-> call, idx |-> n_sent + 1,
           args |-> detector_configurations[n_sent + 1]])
    /\ n_requests' = n_requests + 1
    /\ n_sent' = n_sent + 1
    /\ gd_pc' = IF n_sent + 1 = Len(detector_configurations)
                THEN "retrieve" ELSE "request"
    /\ UNCHANGED <<queue, detector_configurations, data, result, failure,
                   gdHist, optVars, discriminator, cellVars>>

\* data = [mill.retrieve() for _ in range(len(detector_configurations))]
GetDataRetrieve ==
    /\ gd_pc = "retrieve"
    /\ Len(data) < Len(detector_configurations)
    /\ n_requests > 0
    /\ queue # <<>>
    /\ data' = Append(data, Head(queue))
    /\ queue' = Tail(queue)
    /\ n_requests' = n_requests - 1
    /\ gd_pc' = IF Len(data) + 1 = Len(detector_configurations)
                THEN "assemble" ELSE "retrieve"
    /\ UNCHANGED <<command_queue, detector_configurations, n_sent, result,
                   failure, gdHist, optVars, discriminator, cellVars>>

RECURSIVE Flatten(_)
Flatten(ss) == IF ss = <<>> THEN <<>> ELSE Head(ss) \o Flatten(Tail(ss))

\* samples = np.vstack([samples for params, samples in data])
AssembleSamples(d) == Flatten([k \in 1..Len(d) |-> d[k].batch])

\* (mutant) the parameters are taken from the submitted list, in submission
\* order, instead of from the retrieved units
AssembleParamsBySubmission(d) ==
    Flatten([k \in 1..Len(d) |->
               [r \in 1..Len(d[k].batch) |-> detector_configurations[k]]])

\* params = np.vstack([np.array([params] * samples.shape[0]) for params, samples in data])
AssembleParams(d) ==
    Flatten([k \in 1..Len(d) |-> [r \in 1..Len(d[k].batch) |-> d[k].args]])

\* np.vstack of an empty list raises ValueError
GetDataAssemble ==
    /\ gd_pc = "assemble"
    /\ IF data = <<>>
       THEN /\ failure' = "assemble"
            /\ result' = NoResult
       ELSE /\ failure' = "none"
            /\ result' = [params  |-> AssembleParams(data),
                          samples |-> AssembleSamples(data)]
    /\ gd_pc' = "cleanup"
    /\ UNCHANGED <<millVars, detector_configurations, n_sent, data,
                   gdHist, optVars, discriminator, cellVars>>

\* (mutant) the finally block resets the counter instead of retrieving
GetDataDrainResetCounter ==
    /\ gd_pc = "cleanup"
    /\ n_requests > 0
    /\ n_requests' = 0
    /\ cleanup_retrieves' = cleanup_retrieves + 1
    /\ UNCHANGED <<command_queue, queue, gdVars, call, entry_requests, aborted,
                   prev, optVars, discriminator, cellVars>>

\* finally: while mill.n_requests > 0: mill.retrieve()
GetDataDrain ==
    /\ gd_pc = "cleanup"
    /\ n_requests > 0
    /\ queue # <<>>
    /\ queue' = Tail(queue)
    /\ n_requests' = n_requests - 1
    /\ cleanup_retrieves' = cleanup_retrieves + 1
    /\ UNCHANGED <<command_queue, gdVars, call, entry_requests, aborted, prev,
                   optVars, discriminator, cellVars>>

\* (mutant) "if" in place of "while": one retrieve, then out
GetDataExitAfterOne ==
    /\ gd_pc = "cleanup"
    /\ n_requests <= 0 \/ cleanup_retrieves >= 1
    /\ gd_pc' = IF failure = "none" THEN "returned" ELSE "raised"
    /\ UNCHANGED <<millVars, detector_configurations, n_sent, data, result,
                   failure, gdHist, optVars, discriminator, cellVars>>

\* the finally block is done: the return value or the pending exception
\* leaves get_data
GetDataExit ==
    /\ gd_pc = "cleanup"
    /\ n_requests <= 0
    /\ gd_pc' = IF failure = "none" THEN "returned" ELSE "raised"
    /\ UNCHANGED <<millVars, detector_configurations, n_sent, data, result,
                   failure, gdHist, optVars, discriminator, cellVars>>

\* an exception (a simulator error, an interrupt of the notebook) is raised
\* inside the try block: control passes to the finally block
GetDataFail ==
    /\ gd_pc \in {"request", "retrieve", "assemble"}
    /\ failure' = gd_pc
    /\ gd_pc' = "cleanup"
    /\ aborted' = TRUE
    /\ UNCHANGED <<millVars, detector_configurations, n_sent, data, result,
                   call, entry_requests, cleanup_retrieves, prev,
                   optVars, discriminator, cellVars>>

\* an exception is raised inside the finally block: it leaves get_data at
\* once, whatever is still outstanding
GetDataFailCleanup ==
    /\ gd_pc = "cleanup"
    /\ gd_pc' = "interrupted"
    /\ failure' = "cleanup"
    /\ result' = NoResult
    /\ aborted' = TRUE
    /\ UNCHANGED <<millVars, detector_configurations, n_sent, data,
                   call, entry_requests, cleanup_retrieves, prev,
                   optVars, discriminator, cellVars>>

GetDataStep ==
    \/ GetDataRequest
    \/ GetDataRetrieve
    \/ GetDataAssemble
    \/ GetDataDrain
    \/ GetDataExit
    \/ GetDataFail
    \/ GetDataFailCleanup

---------------------------------------------------------------------------
(* get_data under an arbitrary caller: any number of configurations, one   *)
(* call after the other on the same mill.                                  *)

Thetas == {0, TRUE_OFFSET * FP}

ConfigSeqs == UNION {[1..k -> Thetas] : k \in 0..MaxK}

\* the caller's first call on the fresh mill
CallerCall ==
    /\ cell = "caller"
    /\ gd_pc = "idle"
    /\ \E configs \in ConfigSeqs : GetDataEnter(configs)
    /\ UNCHANGED <<millVars, optVars, discriminator, cellVars>>

\* the next call on the same mill, once the first one has handed control
\* back (by return or by exception)
CallerNextCall ==
    /\ cell = "caller"
    /\ gd_pc \in {"returned", "raised", "interrupted"}
    /\ prev.exit = "idle"
    /\ \E configs \in ConfigSeqs : GetDataEnter(configs)
    /\ UNCHANGED <<millVars, optVars, discriminator, cellVars>>

InitMill ==
    /\ n_requests = 0
    /\ command_queue = <<>>
    /\ queue = <<>>

InitGetData ==
    /\ gd_pc = "idle"
    /\ detector_configurations = <<>>
    /\ n_sent = 0
    /\ data = <<>>
    /\ result = NoResult
    /\ failure = "none"
    /\ call = 0
    /\ entry_requests = 0
    /\ cleanup_retrieves = 0
    /\ aborted = FALSE
    /\ prev = [exit |-> "idle", aborted |-> FALSE]

InitCaller ==
    /\ InitMill
    /\ InitGetData
    /\ detector_params_mean = InitialMean
    /\ detector_params_sigma_raw = InitialSigmaRaw
    /\ adam = AdamInit
    /\ discriminator = 0
    /\ cell = "caller"
    /\ step = "none"
    /\ i = 0
    /\ sample_of_detector_params = <<>>
    /\ generator_mean_history = <<>>
    /\ generator_sigma_history = <<>>
    /\ trace = TraceInit

NextCaller ==
    \/ CallerCall
    \/ CallerNextCall
    \/ WorkerComplete
    \/ GetDataStep

SpecGetData == InitCaller /\ [][NextCaller]_vars


---------------------------------------------------------------------------
(* train_discriminator, train_generator and the two cells that call them *)

\* np.ndarray(shape=(n_iterations,)): allocated, nothing written
EmptyHistory == [k \in 1..n_iterations |-> [written |-> FALSE, value |-> 0]]

TdSteps == {"td_sample", "td_call", "td_data"}
TgSteps == {"tg_sample", "tg_call", "tg_data"}

\* n_samples // 8 of the running train_discriminator call
DiscriminatorBatch == IF cell = "pretrain" THEN PretrainConfigs
                                           ELSE DiscriminatorConfigs

\* sample_of_detector_params = tf_session.run(params_sample, {n: n_samples // 8})
TrainDiscriminatorSample ==
    /\ cell \in {"pretrain", "loop"}
    /\ step = "td_sample"
    /\ \E zs \in [1..DiscriminatorBatch -> StandardNormalDraws] :
          sample_of_detector_params' = ParamsSample(zs)
    /\ step' = "td_call"
    /\ trace' = [trace EXCEPT !.batches = @ + 1]
    /\ UNCHANGED <<millVars, gdVars, gdHist, optVars, discriminator, cell, i,
                   generator_mean_history, generator_sigma_history>>

\* _, X_gen_train = get_data(mill, detector_configurations=sample_of_detector_params)
TrainDiscriminatorGetData ==
    /\ cell \in {"pretrain", "loop"}
    /\ step = "td_call"
    /\ GetDataEnter(sample_of_detector_params)
    /\ step' = "td_data"
    /\ UNCHANGED <<millVars, optVars, discriminator, cell, i,
                   sample_of_detector_params, generator_mean_history,
                   generator_sigma_history, trace>>

\* the frame of a get_data call that has returned is dropped
GetDataReturned ==
    /\ gd_pc' = "idle"
    /\ detector_configurations' = <<>>
    /\ n_sent' = 0
    /\ data' = <<>>
    /\ result' = NoResult
    /\ failure' = "none"

\* (mutant) the fit runs the global initializer again
TrainDiscriminatorFitReinitialized ==
    /\ cell \in {"pretrain", "loop"}
    /\ step = "td_data"
    /\ gd_pc = "returned"
    /\ discriminator' = discriminator + 1
    /\ detector_params_mean' = InitialMean
    /\ detector_params_sigma_raw' = InitialSigmaRaw
    /\ adam' = AdamInit
    /\ trace' = [trace EXCEPT !.fits = @ + 1,
                              !.pretrains = IF cell = "pretrain" THEN @ + 1 ELSE @,
                              !.fit_batch = trace.batches]
    /\ step' = IF cell = "pretrain" THEN "end" ELSE "tg_sample"
    /\ GetDataReturned
    /\ UNCHANGED <<millVars, gdHist, cell, i, sample_of_detector_params,
                   generator_mean_history, generator_sigma_history>>

\* discriminator.fit(x=X_train, y=y_train, batch_size=32, epochs=n_epoches):
\* the discriminator has new weights
TrainDiscriminatorFit ==
    /\ cell \in {"pretrain", "loop"}
    /\ step = "td_data"
    /\ gd_pc = "returned"
    /\ discriminator' = discriminator + 1
    /\ trace' = [trace EXCEPT !.fits = @ + 1,
                              !.pretrains = IF cell = "pretrain" THEN @ + 1 ELSE @,
                              !.fit_batch = trace.batches]
    /\ step' = IF cell = "pretrain" THEN "end" ELSE "tg_sample"
    /\ GetDataReturned
    /\ UNCHANGED <<millVars, gdHist, optVars, cell, i, sample_of_detector_params,
                   generator_mean_history, generator_sigma_history>>

\* (mutant) for i in range(n_iterations - 1)
RangeHasNextOffByOne(k) == k + 1 < n_iterations - 1

\* for i in range(n_iterations): another value after k
RangeHasNext(k) == k + 1 < n_iterations

\* the optimization cell starts: the history arrays are allocated and the
\* loop is entered
StartOptimizationCell ==
    /\ cell = "pretrain"
    /\ step = "end"
    /\ generator_mean_history' = EmptyHistory
    /\ generator_sigma_history' = EmptyHistory
    /\ i' = 0
    /\ IF RangeHasNext(-1)
       THEN cell' = "loop" /\ step' = "td_sample"
       ELSE cell' = "done" /\ step' = "end"
    /\ UNCHANGED <<millVars, gdVars, gdHist, optVars, discriminator,
                   sample_of_detector_params, trace>>

\* (mutant) train_generator scores the batch the discriminator was fitted on
TrainGeneratorSampleReused ==
    /\ cell = "loop"
    /\ step = "tg_sample"
    /\ step' = "tg_call"
    /\ UNCHANGED <<millVars, gdVars, gdHist, optVars, discriminator, cell, i,
                   sample_of_detector_params, generator_mean_history,
                   generator_sigma_history, trace>>

\* sample_of_detector_params = tf_session.run(params_sample, {n: 2 ** 8})
TrainGeneratorSample ==
    /\ cell = "loop"
    /\ step = "tg_sample"
    /\ \E zs \in [1..GeneratorConfigs -> StandardNormalDraws] :
          sample_of_detector_params' = ParamsSample(zs)
    /\ step' = "tg_call"
    /\ trace' = [trace EXCEPT !.batches = @ + 1]
    /\ UNCHANGED <<millVars, gdVars, gdHist, optVars, discriminator, cell, i,
                   generator_mean_history, generator_sigma_history>>

\* params_train, X_gen_train = get_data(mill, detector_configurations=sample_of_detector_params)
TrainGeneratorGetData ==
    /\ cell = "loop"
    /\ step = "tg_call"
    /\ GetDataEnter(sample_of_detector_params)
    /\ step' = "tg_data"
    /\ UNCHANGED <<millVars, optVars, discriminator, cell, i,
                   sample_of_detector_params, generator_mean_history,
                   generator_sigma_history, trace>>

\* (mutant) minimize without var_list: every trainable variable is stepped
AllTrainableVariables ==
    {"detector_params_mean", "detector_params_sigma_raw", "discriminator"}

\* var_list=[detector_params_mean, detector_params_sigma_raw]
VarList == {"detector_params_mean", "detector_params_sigma_raw"}

\* proba = discriminator(X)[:, 0]: one score per image row; the images of a
\* unit get the score chosen for the unit
ProbaRows(scores) ==
    Flatten([k \in 1..Len(data) |-> [r \in 1..Len(data[k].batch) |-> scores[k]]])

\* tf_session.run(distribution_opt, {X: X_gen_train, detector_params: params_train})
TrainGeneratorUpdate ==
    /\ cell = "loop"
    /\ step = "tg_data"
    /\ gd_pc = "returned"
    /\ \E scores \in [1..Len(data) -> Probas] :
       \E g \in {Gradient(result.params, ProbaRows(scores))} :
          LET proba == ProbaRows(scores)
              t     == adam.t + 1
              mm    == AdamM(adam.m_mean, g.mean)
              vm    == AdamV(adam.v_mean, g.mean)
              ms    == AdamM(adam.m_sigma, g.sigma)
              vs    == AdamV(adam.v_sigma, g.sigma)
          IN  /\ adam' = [t |-> t, m_mean |-> mm, v_mean |-> vm,
                          m_sigma |-> ms, v_sigma |-> vs]
              /\ detector_params_mean' =
                    IF "detector_params_mean" \in VarList
                    THEN detector_params_mean - AdamDelta(t, mm, vm)
                    ELSE detector_params_mean
              /\ detector_params_sigma_raw' =
                    IF "detector_params_sigma_raw" \in VarList
                    THEN detector_params_sigma_raw - AdamDelta(t, ms, vs)
                    ELSE detector_params_sigma_raw
              /\ discriminator' =
                    IF "discriminator" \in VarList
                    THEN discriminator + 1
                    ELSE discriminator
              /\ trace' = [trace EXCEPT
                              !.updates = @ + 1,
                              !.update_batch = trace.batches,
                              !.zero_reward = \A r \in DOMAIN proba : proba[r] = 0]
    /\ step' = "log"
    /\ GetDataReturned
    /\ UNCHANGED <<millVars, gdHist, cell, i, sample_of_detector_params,
                   generator_mean_history, generator_sigma_history>>

\* (mutant) the history arrays are allocated inside the loop body, so each
\* iteration starts from empty arrays
LogSnapshotReallocated ==
    /\ cell = "loop"
    /\ step = "log"
    /\ generator_mean_history' =
          [EmptyHistory EXCEPT
              ![i + 1] = [written |-> TRUE, value |-> detector_params_mean]]
    /\ generator_sigma_history' =
          [EmptyHistory EXCEPT
              ![i + 1] = [written |-> TRUE, value |-> detector_params_sigma]]
    /\ trace' = [trace EXCEPT !.logs = @ + 1]
    /\ IF RangeHasNext(i)
       THEN i' = i + 1 /\ cell' = "loop" /\ step' = "td_sample"
       ELSE i' = i /\ cell' = "done" /\ step' = "end"
    /\ UNCHANGED <<millVars, gdVars, gdHist, optVars, discriminator,
                   sample_of_detector_params>>

\* m, s = get_distribution_params(); generator_mean_history[i] = m[0];
\* generator_sigma_history[i] = s[0]; then the next value of i, or the end
LogSnapshot ==
    /\ cell = "loop"
    /\ step = "log"
    /\ generator_mean_history' =
          [generator_mean_history EXCEPT
              ![i + 1] = [written |-> TRUE, value |-> detector_params_mean]]
    /\ generator_sigma_history' =
          [generator_sigma_history EXCEPT
              ![i + 1] = [written |-> TRUE, value |-> detector_params_sigma]]
    /\ trace' = [trace EXCEPT !.logs = @ + 1]
    /\ IF RangeHasNext(i)
       THEN i' = i + 1 /\ cell' = "loop" /\ step' = "td_sample"
       ELSE i' = i /\ cell' = "done" /\ step' = "end"
    /\ UNCHANGED <<millVars, gdVars, gdHist, optVars, discriminator,
                   sample_of_detector_params>>

\* an exception leaving get_data ends the cell: nothing catches it
CellFails ==
    /\ cell \in {"pretrain", "loop"}
    /\ gd_pc \in {"raised", "interrupted"}
    /\ cell' = "failed"
    /\ UNCHANGED <<millVars, gdVars, gdHist, optVars, discriminator, step, i,
                   sample_of_detector_params, generator_mean_history,
                   generator_sigma_history, trace>>

InitDistribution ==
    /\ detector_params_mean = InitialMean
    /\ detector_params_sigma_raw = InitialSigmaRaw
    /\ adam = AdamInit

InitCells ==
    /\ discriminator = 0
    /\ cell = "pretrain"
    /\ step = "td_sample"
    /\ i = 0
    /\ sample_of_detector_params = <<>>
    /\ generator_mean_history = <<>>
    /\ generator_sigma_history = <<>>
    /\ trace = TraceInit

Init == InitMill /\ InitGetData /\ InitDistribution /\ InitCells

Progress ==
    \/ TrainDiscriminatorSample
    \/ TrainDiscriminatorGetData
    \/ TrainDiscriminatorFit
    \/ StartOptimizationCell
    \/ TrainGeneratorSample
    \/ TrainGeneratorGetData
    \/ TrainGeneratorUpdate
    \/ LogSnapshot
    \/ WorkerComplete
    \/ GetDataRequest
    \/ GetDataRetrieve
    \/ GetDataAssemble
    \/ GetDataDrain
    \/ GetDataExit

Next ==
    \/ Progress
    \/ GetDataFail
    \/ GetDataFailCleanup
    \/ CellFails

Spec == Init /\ [][Next]_vars

\* every statement that can run does run; failures may or may not happen
FairSpec == Spec /\ WF_vars(Progress)

\* the distribution's functions applied to raw sigma values of either sign
SigmaRawInputs == {(k * FP) \div 2 : k \in (-MaxSigmaRaw)..MaxSigmaRaw}

InitSigma ==
    /\ InitMill /\ InitGetData /\ InitCells
    /\ detector_params_mean = InitialMean
    /\ detector_params_sigma_raw \in SigmaRawInputs
    /\ adam = AdamInit

SpecSigma == InitSigma /\ [][Next]_vars

---------------------------------------------------------------------------
(* Properties of get_data (checked under SpecGetData) *)

Count(s, x) == Cardinality({k \in DOMAIN s : s[k] = x})

\* control is back with the caller after the finally block ran to its end
GetDataLeft == gd_pc \in {"returned", "raised"}

\* every returned image was generated for a request of the running call
OwnResults == \A r \in DOMAIN result.samples : result.samples[r].call = call

\* C1: when get_data hands control back, by return or by an exception raised
\* in the request loop, the retrieve comprehension or the assembly, the mill
\* has no outstanding request, and the finally block has issued one retrieve
\* for every request that was outstanding when the try block was left.
C1_Drained ==
    GetDataLeft =>
        /\ n_requests = 0
        /\ command_queue = <<>> /\ queue = <<>>
        /\ cleanup_retrieves = entry_requests + n_sent - Len(data)

\* two configurations submitted, one retrieved, then the failure: the
\* finally block made the one remaining retrieve
C1_Witness ==
    /\ gd_pc = "raised"
    /\ failure = "retrieve"
    /\ entry_requests = 0
    /\ n_sent = 2
    /\ Len(data) = 1
    /\ cleanup_retrieves = 1

\* C2: a get_data call that no failure is injected into, on k >= 0
\* configurations, issues k requests, then k retrieves, and returns k units
\* whose theta values are the submitted ones, as multisets.
C2_ReturnsAll ==
    (GetDataLeft /\ ~aborted) =>
        /\ gd_pc = "returned"
        /\ n_sent = Len(detector_configurations)
        /\ Len(data) = Len(detector_configurations)
        /\ Len(result.samples) = batch_size * Len(detector_configurations)
        /\ Len(result.params) = batch_size * Len(detector_configurations)
        /\ \A x \in Thetas :
              Count(result.params, x)
                 = batch_size * Count(detector_configurations, x)

\* C3: whatever the order in which the workers complete, every returned image
\* row sits at the row index of the theta of the request that produced it.
C3_Paired ==
    gd_pc = "returned" =>
        /\ Len(result.params) = Len(result.samples)
        /\ \A r \in DOMAIN result.samples :
              result.params[r] = result.samples[r].theta

\* the second request, with another theta, completed first and was
\* retrieved first
C3_Witness ==
    /\ gd_pc = "returned"
    /\ Len(data) = 2
    /\ data[1].batch[1].call = call /\ data[1].batch[1].idx = 2
    /\ data[2].batch[1].call = call /\ data[2].batch[1].idx = 1
    /\ data[1].args # data[2].args

\* C4 as stated: after a call aborted at any point (the finally block
\* included), the next call returns only results of its own requests.
C4_AnyAbort ==
    (prev.aborted /\ gd_pc = "returned") => OwnResults

\* C4 amended: after a call aborted in the request loop, the retrieve
\* comprehension or the assembly (its finally block ran to the end), the next
\* call finds the mill empty, never waits for more results than its own
\* outstanding requests will produce, and returns only its own results.
C4_AfterDrainedAbort ==
    (prev.aborted /\ prev.exit = "raised") =>
        /\ entry_requests = 0
        /\ gd_pc = "retrieve" =>
              /\ Len(command_queue) + Len(queue)
                    = Len(detector_configurations) - Len(data)
              /\ \A k \in DOMAIN command_queue : command_queue[k].call = call
              /\ \A k \in DOMAIN queue : queue[k].batch[1].call = call
        /\ gd_pc = "returned" =>
              /\ OwnResults
              /\ Len(data) = Len(detector_configurations)

\* the first call was aborted while retrieving and drained; the next call
\* returned its two units
C4_Witness ==
    /\ prev.aborted /\ prev.exit = "raised"
    /\ gd_pc = "returned"
    /\ Len(data) = 2
    /\ OwnResults

---------------------------------------------------------------------------
(* Properties of the training run *)

Moved ==
    \/ detector_params_mean # InitialMean
    \/ detector_params_sigma_raw # InitialSigmaRaw

\* C5: in a run without failure the pretraining runs once, before iteration
\* 0; i goes up by one at a time; the run ends in DONE after exactly
\* n_iterations iterations (one fit, one update and one log entry each).
C5_Run ==
    /\ [][i' # i => (cell = "loop" /\ i' = i + 1)]_vars
    /\ [](cell = "pretrain" => trace.logs = 0 /\ trace.updates = 0 /\ i = 0)
    /\ [](cell = "loop" => trace.pretrains = 1 /\ i < n_iterations)
    /\ [](cell = "done" =>
            /\ trace.pretrains = 1
            /\ trace.fits = n_iterations + 1
            /\ trace.updates = n_iterations
            /\ trace.logs = n_iterations)
    /\ <>(cell = "done" \/ failure # "none")

\* the run is over and no get_data call failed
C5_Witness ==
    /\ cell = "done"
    /\ failure = "none"
    /\ trace.logs = n_iterations
    /\ i = n_iterations - 1

\* the distribution_opt step of train_generator in which every score is 0
ZeroRewardUpdate ==
    /\ cell = "loop" /\ step = "tg_data" /\ step' = "log"
    /\ trace'.zero_reward

\* C6 as stated: an update whose reward is 0 on every sample leaves mean and
\* raw sigma unchanged, whatever the optimizer's moment estimates.
C6_ZeroRewardNoChange ==
    [][ZeroRewardUpdate =>
          /\ detector_params_mean' = detector_params_mean
          /\ detector_params_sigma_raw' = detector_params_sigma_raw]_vars

\* C6 amended: an update whose reward is 0 on every sample leaves mean and
\* raw sigma unchanged when Adam's first-moment estimates are zero.
C6_ZeroRewardZeroMoments ==
    [][(ZeroRewardUpdate /\ adam.m_mean = 0 /\ adam.m_sigma = 0) =>
          /\ detector_params_mean' = detector_params_mean
          /\ detector_params_sigma_raw' = detector_params_sigma_raw]_vars

\* the second update of the run was, like the first, a zero-reward one
C6_Witness ==
    /\ cell = "loop" /\ step = "log"
    /\ trace.zero_reward
    /\ adam.t = 2
    /\ adam.m_mean = 0 /\ adam.m_sigma = 0
    /\ ~Moved

\* C7: the standard deviation softplus(raw sigma), as sampled from, used in
\* the loss and logged, is above 0 for every raw sigma, of either sign.
C7_SigmaPositive ==
    /\ detector_params_sigma > 0
    /\ \A k \in DOMAIN generator_sigma_history :
          generator_sigma_history[k].written =>
              generator_sigma_history[k].value > 0

\* an update has taken raw sigma from 0 to a negative value
C7_Witness ==
    /\ trace.updates >= 1
    /\ detector_params_sigma_raw < 0
    /\ detector_params_sigma_raw > - (FP \div 2)
    /\ detector_params_sigma > 0

\* C8: no step of train_generator (sampling, image generation, scoring, the
\* optimizer step) changes the discriminator's weights or the history.
C8_DiscriminatorUntouched ==
    [][(cell = "loop" /\ step \in TgSteps) =>
          /\ discriminator' = discriminator
          /\ generator_mean_history' = generator_mean_history
          /\ generator_sigma_history' = generator_sigma_history]_vars

\* an update has moved the distribution; the weights are those of the last fit
C8_Witness ==
    /\ cell = "loop" /\ step = "log"
    /\ Moved
    /\ discriminator = trace.fits

\* C9: train_discriminator never changes (mean, raw sigma): the pretraining
\* samples from the initial distribution, and the two variables change only
\* in the optimizer step of train_generator.
C9_OnlyGeneratorMoves ==
    /\ [](cell = "pretrain" =>
            /\ detector_params_mean = InitialMean
            /\ detector_params_sigma_raw = InitialSigmaRaw)
    /\ [][(cell \in {"pretrain", "loop"} /\ step \in TdSteps) =>
             /\ detector_params_mean' = detector_params_mean
             /\ detector_params_sigma_raw' = detector_params_sigma_raw]_vars
    /\ [][(\/ detector_params_mean' # detector_params_mean
           \/ detector_params_sigma_raw' # detector_params_sigma_raw) =>
             (cell = "loop" /\ step = "tg_data" /\ step' = "log")]_vars

\* the train_discriminator call of the second iteration is over and the
\* distribution is where the first update left it
C9_Witness ==
    /\ cell = "loop" /\ i = 1 /\ step = "tg_sample"
    /\ Moved

\* no simulation is requested or in flight
MillIdle ==
    /\ gd_pc = "idle"
    /\ n_requests = 0 /\ command_queue = <<>> /\ queue = <<>>

\* C10: in iteration i the steps come in the order sample, generate, fit,
\* sample again, generate, update, log: the update follows the fit of the
\* same iteration and uses a batch sampled after it, the fit of the next
\* iteration follows the update, and image generation is over before the fit
\* and before the update.
C10_StepOrder ==
    cell = "loop" =>
        /\ step \in TdSteps =>
              /\ trace.fits = i + 1 /\ trace.updates = i /\ trace.logs = i
              /\ trace.batches = IF step = "td_sample" THEN 2 * i + 1
                                                       ELSE 2 * i + 2
        /\ step \in TgSteps =>
              /\ trace.fits = i + 2 /\ trace.updates = i /\ trace.logs = i
              /\ trace.fit_batch = 2 * i + 2
              /\ trace.batches = IF step = "tg_sample" THEN trace.fit_batch
                                                       ELSE trace.fit_batch + 1
        /\ step = "log" =>
              /\ trace.fits = i + 2 /\ trace.updates = i + 1 /\ trace.logs = i
              /\ trace.update_batch = trace.fit_batch + 1
        /\ step \in {"td_sample", "td_call", "tg_sample", "tg_call", "log"} =>
              MillIdle

\* the update of the second iteration is done
C10_Witness ==
    /\ cell = "loop" /\ i = 1 /\ step = "log"
    /\ trace.updates = 2
    /\ trace.update_batch = trace.fit_batch + 1

\* the entries of the history arrays that have been assigned
MeanEntries ==
    {k \in DOMAIN generator_mean_history : generator_mean_history[k].written}

SigmaEntries ==
    {k \in DOMAIN generator_sigma_history : generator_sigma_history[k].written}

\* entry k (iteration k - 1) holds the distribution's present mean and sigma
HoldsPresent(k) ==
    /\ generator_mean_history[k].value = detector_params_mean
    /\ generator_sigma_history[k].value = detector_params_sigma

\* C11: the histories are filled one entry per iteration, in order: while
\* iteration i runs, exactly the entries of iterations 0..i-1 are set, and
\* until the update of iteration i the last of them holds the present (mean,
\* sigma), which is what was read after the update of iteration i - 1; a set
\* entry is never changed afterwards; at the end all n_iterations entries, and
\* no more, are set, the last holding the final (mean, sigma).
C11_AppendOnly ==
    /\ [](/\ MeanEntries = 1..trace.logs
          /\ SigmaEntries = 1..trace.logs)
    /\ [](cell = "loop" =>
            /\ MeanEntries = 1..i
            /\ (i >= 1 /\ step # "log") => HoldsPresent(i))
    /\ [](cell = "done" =>
            /\ Len(generator_mean_history) = n_iterations
            /\ Len(generator_sigma_history) = n_iterations
            /\ MeanEntries = 1..n_iterations
            /\ SigmaEntries = 1..n_iterations
            /\ HoldsPresent(n_iterations))
    /\ [][/\ \A k \in MeanEntries :
                /\ k \in DOMAIN generator_mean_history'
                /\ generator_mean_history'[k] = generator_mean_history[k]
          /\ \A k \in SigmaEntries :
                /\ k \in DOMAIN generator_sigma_history'
                /\ generator_sigma_history'[k] = generator_sigma_history[k]]_vars

\* the run is over; the first entry kept the mean of the first iteration
\* although the second update moved the mean away from it
C11_Witness ==
    /\ cell = "done"
    /\ MeanEntries = 1..n_iterations
    /\ generator_mean_history[1].value # detector_params_mean
    /\ generator_mean_history[n_iterations].value = detector_params_mean

===========================================================================
